---- MODULE Spec2Model ----
(***************************************************************************)
(* A model of the order book core of distributed-orderbook:                *)
(*   src/src/core/Heap.js       the binary heap, BidHeap and AskHeap        *)
(*   src/src/core/OrderBook.js  the book: addOrder, cancelOrder, snapshots  *)
(*   src/src/network/Peer.js    the caller of the book (submitOrder)        *)
(*                                                                         *)
(* Numbers.  Prices and quantities are JavaScript numbers that the book     *)
(* rounds to a fixed count of decimals.  The model writes them as integers  *)
(* counted in tenths of the smallest step the book keeps: a value v stands  *)
(* for v / PriceStep price steps (v / QtyStep quantity steps), so an input  *)
(* of 16 is 1.6 steps and round() takes it to 20.  NaN is the one value of  *)
(* the number type that is not an ordinary number and that the validation   *)
(* of a price lets through; it is written as a negative integer and every   *)
(* comparison and subtraction spells out what JavaScript does with it.      *)
(* Binary floating point error below the rounding step is not modelled.     *)
(*                                                                         *)
(* Arrays.  A JavaScript array is a sequence; index i of the code is index  *)
(* i + 1 here, so the heap's parent of k is k \div 2 and its children are   *)
(* 2k and 2k + 1.                                                          *)
(***************************************************************************)
EXTENDS Integers, Sequences, FiniteSets, TLC

\* ---------------------------------------------------------------- enums.js

BUY == "buy"
SELL == "sell"
LIMIT == "limit"
MARKET == "market"
OPEN == "open"
FILLED == "filled"
PARTIALLY_FILLED == "partially_filled"
CANCELLED == "cancelled"
TRADE == "trade"
ORDER_ADDED == "order_added"
ORDER_REMOVED == "order_removed"

OrderSide == {BUY, SELL}
OrderType == {LIMIT, MARKET}

\* ------------------------------------------------------------ number values

\* parseFloat of a missing or unreadable price (Peer.submitOrder): not a number.
NaN == -1
\* The price of a market order after normalisation: null.
NullPrice == -2
\* An absent number field of the order handed to addOrder (undefined).
Undefined == -3
\* An absent string field of the order handed to addOrder (undefined, or "").
Absent == ""

\* Tenths of a step per step: pricePrecision and quantityPrecision decimals.
PriceStep == 10
QtyStep == 10

\* a < b, a <= b, a >= b, a > b of JavaScript numbers: false when either is NaN.
NumLt(a, b) == a # NaN /\ b # NaN /\ a < b
NumLe(a, b) == a # NaN /\ b # NaN /\ a <= b
NumGe(a, b) == a # NaN /\ b # NaN /\ a >= b
NumGt(a, b) == a # NaN /\ b # NaN /\ a > b
\* a !== b of JavaScript numbers: NaN differs from everything, itself included.
NumNe(a, b) == a = NaN \/ b = NaN \/ a # b
\* a - b of JavaScript numbers.
NumSub(a, b) == IF a = NaN \/ b = NaN THEN NaN ELSE a - b

\* #round: parseFloat(value.toFixed(decimals)), to the nearest step, a half
\* going away from zero; NaN stays NaN.
RECURSIVE round(_, _)
round(value, step) ==
    IF value = NaN THEN NaN
    ELSE IF value < 0 THEN 0 - round(0 - value, step)
    ELSE ((2 * value + step) \div (2 * step)) * step

\* ------------------------------------------------------------------ Heap.js

BID == "bid"
ASK == "ask"

\* The comparators of BidHeap and AskHeap, as the heap uses them: the test
\* comparator(a, b) < 0, "a goes above b".
BidBefore(a, b) ==
    IF NumNe(b.price, a.price) THEN NumLt(NumSub(b.price, a.price), 0)
    ELSE a.timestamp - b.timestamp < 0

AskBefore(a, b) ==
    IF NumNe(a.price, b.price) THEN NumLt(NumSub(a.price, b.price), 0)
    ELSE a.timestamp - b.timestamp < 0

comparatorBefore(kind, a, b) ==
    IF kind = BID THEN BidBefore(a, b) ELSE AskBefore(a, b)

swap(data, i, j) == [data EXCEPT ![i] = data[j], ![j] = data[i]]

RECURSIVE bubbleUp(_, _, _)
bubbleUp(kind, data, idx) ==
    IF idx > 1
    THEN LET parentIdx == idx \div 2
         IN IF comparatorBefore(kind, data[idx], data[parentIdx])
            THEN bubbleUp(kind, swap(data, idx, parentIdx), parentIdx)
            ELSE data
    ELSE data

RECURSIVE bubbleDown(_, _, _)
bubbleDown(kind, data, idx) ==
    LET length == Len(data)
        left == 2 * idx
        right == 2 * idx + 1
        best1 == IF left <= length /\ comparatorBefore(kind, data[left], data[idx])
                 THEN left ELSE idx
        best == IF right <= length /\ comparatorBefore(kind, data[right], data[best1])
                THEN right ELSE best1
    IN IF best # idx
       THEN bubbleDown(kind, swap(data, idx, best), best)
       ELSE data

\* The value of peek() on an empty heap, of a removeById that finds nothing.
Null == [id |-> "null"]

peek(data) == IF Len(data) = 0 THEN Null ELSE data[1]

insert(kind, data, item) == bubbleUp(kind, Append(data, item), Len(data) + 1)

Front(data) == SubSeq(data, 1, Len(data) - 1)

\* extractTop: the heap array afterwards (the returned item is peek(data)).
extractTop(kind, data) ==
    IF Len(data) = 0 THEN data
    ELSE LET last == data[Len(data)]
             popped == Front(data)
         IN IF Len(popped) > 0
            THEN bubbleDown(kind, [popped EXCEPT ![1] = last], 1)
            ELSE popped

\* A findIndex that falls back on the top of the heap for an id it does not hold.
findIndexOrTop(data, id) ==
    IF \E i \in 1..Len(data) : data[i].id = id
    THEN CHOOSE i \in 1..Len(data) :
            /\ data[i].id = id
            /\ \A j \in 1..(i - 1) : data[j].id # id
    ELSE IF data = <<>> THEN 0 ELSE 1

\* findIndex(o => o.id === id): the first index holding the id, 0 for none.
findIndex(data, id) ==
    IF \E i \in 1..Len(data) : data[i].id = id
    THEN CHOOSE i \in 1..Len(data) :
            /\ data[i].id = id
            /\ \A j \in 1..(i - 1) : data[j].id # id
    ELSE 0

\* removeById: the heap array afterwards (the returned item is data[findIndex]).
removeById(kind, data, id) ==
    LET idx == findIndex(data, id)
    IN IF idx = 0 THEN data
       ELSE LET last == data[Len(data)]
                popped == Front(data)
            IN IF idx <= Len(popped)
               THEN LET put == [popped EXCEPT ![idx] = last]
                        up == bubbleUp(kind, put, idx)
                    IN bubbleDown(kind, up, idx)
               ELSE popped

\* An updateQuantity that writes the quantity to every item of the heap.
updateQuantityOfAll(data, id, newQuantity) ==
    [i \in 1..Len(data) |-> [data[i] EXCEPT !.quantity = newQuantity]]

updateQuantity(data, id, newQuantity) ==
    LET idx == findIndex(data, id)
    IN IF idx = 0 THEN data
       ELSE [data EXCEPT ![idx].quantity = newQuantity]

\* ------------------------------------------------------------- OrderBook.js

\* The trading pair of the book, and the pair of some other book.
Pair == "BTC/USDT"
OtherPair == "ETH/USDT"

VARIABLES
    bids,      \* #bids: the array of the BidHeap
    asks,      \* #asks: the array of the AskHeap
    trades,    \* #trades: the trade history
    now,       \* the node's clock, what Date.now() returns
    result,    \* what the last call returned (or that it threw)
    hookLog,   \* the hooks the last call fired, in order, each with what
               \* getTrades(), getBids() and getAsks() showed at that moment
    fillLog,   \* history: the fills of the last call, each with the aggressor
               \* and the opposing heap before it and both orders after it
    snap,      \* the last snapshot getSnapshot() handed out
    ops,       \* the number of calls made so far
    peerBooks, \* the #orderBook of each peer
    inflight,  \* the requests a broadcast has sent that were not handled yet
    peerResult, \* what the last call on a peer was given and returned, and
               \* (history) the peer's book as the call found it
    applied    \* history: per peer, the ids of the orders its book took in

vars == <<bids, asks, trades, now, result, hookLog, fillLog, snap, ops,
          peerBooks, inflight, peerResult, applied>>

\* What belongs to the peers of the network (Peer.js), which the calls made on
\* one book directly leave alone.
peerVars == <<peerBooks, inflight, peerResult, applied>>

\* order.peerId || null
NoPeer == "null"

\* Objects.  An order in a heap is a JavaScript object, and the caller who
\* handed loadSnapshot a snapshot still holds the very objects the heaps are
\* built from: what the book writes to such an order, the caller's snapshot
\* shows.  The field shared of an order says which entry of the snapshot's
\* array (bids for a bid, asks for an ask) the object is, 0 when it is none.
\* It is identity, not a field of the JavaScript object; a copy has 0.
NoSnapshot == [pair |-> "none"]

snapSide(kind) == IF kind = BID THEN "bids" ELSE "asks"

unshared(item) == [item EXCEPT !.shared = 0]

unsharedAll(items) == [i \in 1..Len(items) |-> unshared(items[i])]

sharedAll(items) == [i \in 1..Len(items) |-> [items[i] EXCEPT !.shared = i]]

\* getSnapshot's bestBid and bestAsk are this.bestBid() and this.bestAsk(): the
\* top objects of the heaps themselves.  Such an object has BestShared in its
\* field shared.
BestShared == -1

snapBest(kind) == IF kind = BID THEN "bestBid" ELSE "bestAsk"

\* The heap after getSnapshot handed out its top: the snapshot the caller held
\* before is dropped, and with it what it shared with the book.
handedOut(heap) ==
    [i \in 1..Len(heap) |->
        IF i = 1 THEN [heap[i] EXCEPT !.shared = BestShared] ELSE unshared(heap[i])]

\* The snapshot after the book wrote to the orders of this heap.
writeThrough(snapshot, kind, heap) ==
    IF snapshot = NoSnapshot THEN snapshot
    ELSE [snapshot EXCEPT ![snapSide(kind)] =
             [i \in 1..Len(@) |->
                 IF \E j \in 1..Len(heap) : heap[j].shared = i
                 THEN unshared(heap[CHOOSE j \in 1..Len(heap) : heap[j].shared = i])
                 ELSE @[i]],
                          ![snapBest(kind)] =
             IF \E j \in 1..Len(heap) : heap[j].shared = BestShared
             THEN unshared(heap[CHOOSE j \in 1..Len(heap) :
                                   heap[j].shared = BestShared])
             ELSE @]

\* A validation that never looks at the quantity.
validateOrderWithoutQuantity(order) ==
    IF order.id = Absent THEN "Order must have an id"
    ELSE IF order.side \notin OrderSide THEN "Order side must be one of"
    ELSE IF order.type # Absent /\ order.type \notin OrderType
    THEN "Order type must be one of"
    ELSE IF order.type # MARKET
            /\ (order.price = Undefined \/ order.price = NullPrice
                \/ NumLe(order.price, 0))
    THEN "Limit order must have a positive price"
    ELSE "ok"

\* #validateOrder: the error it throws, "ok" when it throws none.
validateOrder(order) ==
    IF order.id = Absent THEN "Order must have an id"
    ELSE IF order.side \notin OrderSide THEN "Order side must be one of"
    ELSE IF order.type # Absent /\ order.type \notin OrderType
    THEN "Order type must be one of"
    ELSE IF order.type # MARKET
            /\ (order.price = Undefined \/ order.price = NullPrice
                \/ NumLe(order.price, 0))
    THEN "Limit order must have a positive price"
    ELSE IF order.quantity = Undefined \/ order.quantity = 0
            \/ order.quantity = NaN \/ NumLe(order.quantity, 0)
    THEN "Order quantity must be positive"
    ELSE "ok"

\* A normalisation that copies every field of its argument ({ ...order }), the
\* remote flag of applyRemoteOrder with them.
normaliseKeepingRemote(order, clock) ==
    [f \in DOMAIN order \cup {"status", "shared"} |->
        IF f = "type" THEN (IF order.type = Absent THEN LIMIT ELSE order.type)
        ELSE IF f = "price"
        THEN (IF order.type = MARKET THEN NullPrice
              ELSE round(order.price, PriceStep))
        ELSE IF f = "quantity" THEN round(order.quantity, QtyStep)
        ELSE IF f = "peerId"
        THEN (IF order.peerId = Absent THEN NoPeer ELSE order.peerId)
        ELSE IF f = "timestamp"
        THEN (IF order.timestamp = Undefined \/ order.timestamp = 0
              THEN clock ELSE order.timestamp)
        ELSE IF f = "status" THEN OPEN
        ELSE IF f = "shared" THEN 0
        ELSE order[f]]

\* The object addOrder builds from its argument before matching.
normalise(order, clock) ==
    [id |-> order.id,
     side |-> order.side,
     type |-> IF order.type = Absent THEN LIMIT ELSE order.type,
     price |-> IF order.type = MARKET THEN NullPrice
               ELSE round(order.price, PriceStep),
     quantity |-> round(order.quantity, QtyStep),
     peerId |-> IF order.peerId = Absent THEN NoPeer ELSE order.peerId,
     timestamp |-> IF order.timestamp = Undefined \/ order.timestamp = 0
                   THEN clock ELSE order.timestamp,
     status |-> OPEN,
     shared |-> 0]

\* #emit: the hook is called with the data and can read the book as it is now.
emit(hooks, event, data, bk) ==
    Append(hooks, [event |-> event, data |-> data, seenTrades |-> bk.trades,
                   seenBids |-> bk.bids, seenAsks |-> bk.asks])

oppKind(order) == IF order.side = BUY THEN ASK ELSE BID

\* The book with its opposing heap (for this order) replaced.
withOpposing(bk, order, heap) ==
    IF order.side = BUY THEN [bk EXCEPT !.asks = heap]
    ELSE [bk EXCEPT !.bids = heap]

opposingHeap(bk, order) == IF order.side = BUY THEN bk.asks ELSE bk.bids

priceMatches(order, remainder, best) ==
    IF order.type = MARKET THEN TRUE
    ELSE IF order.side = BUY THEN NumGe(remainder.price, best.price)
    ELSE NumLe(remainder.price, best.price)

Min2(a, b) == IF a < b THEN a ELSE b

\* A fill of the aggressor's whole remaining quantity, whatever rests.
tradedQuantityNoMin(remainder, best) ==
    round(remainder.quantity, QtyStep)

\* A fill of one quantity step in each pass of the loop.
tradedQuantityOneStep(remainder, best) == QtyStep

tradedQuantity(remainder, best) ==
    round(Min2(remainder.quantity, best.quantity), QtyStep)

\* A trade priced at the aggressor's price.
makeTradeAtAggressorPrice(order, remainder, best, tradedQty, clock) ==
    [id |-> <<remainder.id, best.id, clock>>,
     pair |-> Pair,
     price |-> remainder.price,
     quantity |-> tradedQty,
     buyOrderId |-> IF order.side = BUY THEN remainder.id ELSE best.id,
     sellOrderId |-> IF order.side = SELL THEN remainder.id ELSE best.id,
     buyPeerId |-> IF order.side = BUY THEN remainder.peerId ELSE best.peerId,
     sellPeerId |-> IF order.side = SELL THEN remainder.peerId ELSE best.peerId,
     timestamp |-> clock]

makeTrade(order, remainder, best, tradedQty, clock) ==
    [id |-> <<remainder.id, best.id, clock>>,
     pair |-> Pair,
     price |-> best.price,
     quantity |-> tradedQty,
     buyOrderId |-> IF order.side = BUY THEN remainder.id ELSE best.id,
     sellOrderId |-> IF order.side = SELL THEN remainder.id ELSE best.id,
     buyPeerId |-> IF order.side = BUY THEN remainder.peerId ELSE best.peerId,
     sellPeerId |-> IF order.side = SELL THEN remainder.peerId ELSE best.peerId,
     timestamp |-> clock]

\* What one fill leaves of the resting order at the top of the heap.
filledBest(best, tradedQty) ==
    [best EXCEPT !.quantity = round(best.quantity - tradedQty, QtyStep)]

\* The opposing heap after one fill: the emptied order is extracted, the other
\* keeps its place with its new quantity.
settleBest(kind, heap, best1) ==
    LET written == [heap EXCEPT ![1] = best1]
    IN IF best1.quantity = 0 THEN extractTop(kind, written)
       ELSE updateQuantity(written, best1.id, best1.quantity)

\* ORDER_REMOVED fired after every fill, also when the order stays.
matchHooksEveryFill(hooks, best1, bk) == emit(hooks, ORDER_REMOVED, best1, bk)

\* The hooks #match fires after one fill.
matchHooks(hooks, best1, bk) ==
    IF best1.quantity = 0 THEN emit(hooks, ORDER_REMOVED, best1, bk) ELSE hooks

\* One pass of the loop as the history keeps it.
fillRecord(trade, heap, heap1, remainder, remainder1, best1) ==
    [trade |-> trade, heapBefore |-> heap, heapAfter |-> heap1,
     remainder |-> remainder, bestAfter |-> best1, remainderAfter |-> remainder1]

\* The while loop of #match. st holds the book, the remainder, the trades made
\* and the hooks fired so far (and the history of the fills).
RECURSIVE matchLoop(_, _, _)
matchLoop(order, st, clock) ==
    LET heap == opposingHeap(st.book, order)
    IN IF ~(st.remainder.quantity > 0 /\ Len(heap) > 0) THEN st
       ELSE LET best == peek(heap)
            IN IF ~priceMatches(order, st.remainder, best) THEN st
               ELSE LET tradedQty == tradedQuantity(st.remainder, best)
                        trade == makeTrade(order, st.remainder, best, tradedQty, clock)
                        remainder1 == [st.remainder EXCEPT !.quantity =
                                          round(@ - tradedQty, QtyStep)]
                        best1 == filledBest(best, tradedQty)
                        heap1 == settleBest(oppKind(order), heap, best1)
                        book1 == withOpposing(st.book, order, heap1)
                    IN matchLoop(order,
                                 [book |-> book1,
                                  remainder |-> remainder1,
                                  trades |-> Append(st.trades, trade),
                                  hooks |-> matchHooks(st.hooks, best1, book1),
                                  fills |-> Append(st.fills,
                                               fillRecord(trade, heap, heap1,
                                                          st.remainder, remainder1,
                                                          best1))],
                                 clock)

\* What the fills of #match wrote to orders the caller's snapshot shares with
\* the book: the quantity left of each order matched, and the quantity
\* updateQuantity wrote.
RECURSIVE writeFills(_, _, _)
writeFills(snapshot, kind, fills) ==
    IF fills = <<>> THEN snapshot
    ELSE writeFills(writeThrough(writeThrough(snapshot, kind,
                                              <<Head(fills).bestAfter>>),
                                 kind, Head(fills).heapAfter),
                    kind, Tail(fills))

\* #match
match(bk, order, clock) ==
    matchLoop(order, [book |-> bk, remainder |-> order, trades |-> <<>>,
                      hooks |-> <<>>, fills |-> <<>>], clock)

\* #insertOrder
insertOrder(bk, order) ==
    IF order.side = BUY THEN [bk EXCEPT !.bids = insert(BID, bk.bids, order)]
    ELSE [bk EXCEPT !.asks = insert(ASK, bk.asks, order)]

\* A trade log that takes the new trades in front (unshift).
pushTradesInFront(bk, newTrades) == [bk EXCEPT !.trades = newTrades \o bk.trades]

\* The trade log once #match has returned: addOrder pushes the new trades.
pushTrades(bk, newTrades) == [bk EXCEPT !.trades = bk.trades \o newTrades]

\* trades.forEach(trade => #emit(TRADE, trade))
RECURSIVE emitTrades(_, _, _)
emitTrades(hooks, newTrades, bk) ==
    IF newTrades = <<>> THEN hooks
    ELSE emitTrades(emit(hooks, TRADE, Head(newTrades), bk), Tail(newTrades), bk)

\* The status addOrder gives a remainder that still has quantity.
remainderStatus(newTrades) ==
    IF Len(newTrades) > 0 THEN PARTIALLY_FILLED ELSE OPEN

\* A remainder put into the book whatever its type.
restsWithoutType(remainder) == remainder.quantity > 0

\* Whether addOrder puts the remainder into the book.
rests(remainder) == remainder.quantity > 0 /\ remainder.type = LIMIT

\* addOrder for an order that passed #validateOrder: the book afterwards, the
\* value returned and the hooks fired.
addOrder(bk, order, clock) ==
    LET normalised == normalise(order, clock)
        m == match(bk, normalised, clock)
        pushed == [pushTrades(m.book, m.trades) EXCEPT
                      !.snap = writeFills(bk.snap, oppKind(normalised), m.fills)]
        hooks1 == emitTrades(m.hooks, m.trades, pushed)
        left == m.remainder.quantity > 0
        remainder == IF left
                     THEN [m.remainder EXCEPT !.status = remainderStatus(m.trades)]
                     ELSE m.remainder
        book2 == IF rests(remainder) THEN insertOrder(pushed, remainder) ELSE pushed
        hooks2 == IF rests(remainder)
                  THEN emit(hooks1, ORDER_ADDED, remainder, book2) ELSE hooks1
    IN [book |-> book2,
        hooks |-> hooks2,
        fills |-> m.fills,
        result |-> [op |-> "addOrder",
                    threw |-> "no",
                    order |-> normalised,
                    trades |-> m.trades,
                    remainder |-> IF left THEN remainder ELSE Null,
                    status |-> IF left THEN remainder.status ELSE FILLED]]

\* cancelOrder: bids first, then asks.
cancelOrder(bk, orderId) ==
    LET inBids == findIndex(bk.bids, orderId)
        inAsks == findIndex(bk.asks, orderId)
        found == IF inBids # 0 THEN bk.bids[inBids]
                 ELSE IF inAsks # 0 THEN bk.asks[inAsks]
                 ELSE Null
        cancelled == IF found = Null THEN Null
                     ELSE [found EXCEPT !.status = CANCELLED]
        snap1 == IF found = Null THEN bk.snap
                 ELSE writeThrough(bk.snap, IF inBids # 0 THEN BID ELSE ASK,
                                   <<cancelled>>)
        book1 == IF inBids # 0
                 THEN [bk EXCEPT !.bids = removeById(BID, bk.bids, orderId),
                                 !.snap = snap1]
                 ELSE [bk EXCEPT !.asks = removeById(ASK, bk.asks, orderId),
                                 !.snap = snap1]
    IN [book |-> book1,
        fills |-> <<>>,
        hooks |-> IF found = Null THEN <<>>
                  ELSE emit(<<>>, ORDER_REMOVED, cancelled, book1),
        result |-> [op |-> "cancelOrder", threw |-> "no", orderId |-> orderId,
                    cancelled |-> cancelled]]

bestBid(bk) == peek(bk.bids)
bestAsk(bk) == peek(bk.asks)

spread(bk) ==
    IF bestBid(bk) = Null \/ bestAsk(bk) = Null THEN Null
    ELSE [value |-> round(NumSub(bestAsk(bk).price, bestBid(bk).price), PriceStep)]

\* getSnapshot: the arrays hold copies of the orders.
getSnapshot(bk, clock) ==
    [pair |-> Pair,
     timestamp |-> clock,
     bids |-> unsharedAll(bk.bids),
     asks |-> unsharedAll(bk.asks),
     bestBid |-> IF bestBid(bk) = Null THEN Null ELSE unshared(bestBid(bk)),
     bestAsk |-> IF bestAsk(bk) = Null THEN Null ELSE unshared(bestAsk(bk)),
     spread |-> spread(bk)]

\* snapshot.bids.forEach(o => heap.insert(o)), from an empty heap.
RECURSIVE insertAll(_, _, _)
insertAll(kind, data, items) ==
    IF items = <<>> THEN data
    ELSE insertAll(kind, insert(kind, data, Head(items)), Tail(items))

\* A pair check that lets every snapshot through.
pairAlwaysMatches(snapshot) == TRUE

\* loadSnapshot's guard: snapshot.pair !== this.#pair throws.
pairMatches(snapshot) == snapshot.pair = Pair

\* loadSnapshot for a snapshot of the book's own pair: the heaps are built
\* from the snapshot's own order objects.
loadSnapshot(bk, snapshot) ==
    [bk EXCEPT !.bids = insertAll(BID, <<>>, sharedAll(snapshot.bids)),
               !.asks = insertAll(ASK, <<>>, sharedAll(snapshot.asks))]

\* -------------------------------------------------------------- the calls

\* The most calls one behaviour makes, and the last value of the clock.
MaxOps == 3
MaxNow == 2

\* The orders callers hand to addOrder.  Prices and quantities are in tenths
\* of a step: 16 is rounded to 20, 4 to 0.  A price of NaN is what
\* Peer.submitOrder passes on when the request carries no readable price.
IdNames == <<"a", "b", "c", "d", "e", "f">>
PeerIds == {"p1"}
PriceInputs == {10, 16, NaN}
QtyInputs == {0, 10, 16}
TimestampInputs == {Undefined, 1}

\* Order ids are opaque to the book: all it does with one is compare it with
\* the ids it holds.  A caller therefore hands over an id the book has seen
\* (one resting in a heap or named in a trade) or the first name it has not.
RestingIds == {bids[i].id : i \in 1..Len(bids)} \cup {asks[i].id : i \in 1..Len(asks)}
TradedIds ==
    {trades[i].buyOrderId : i \in 1..Len(trades)}
        \cup {trades[i].sellOrderId : i \in 1..Len(trades)}
KnownIds == RestingIds \cup TradedIds
FreshIds ==
    LET unseen == {k \in 1..Len(IdNames) : IdNames[k] \notin KnownIds}
    IN IF unseen = {} THEN {}
       ELSE {IdNames[CHOOSE k \in unseen : \A j \in unseen : k <= j]}
Ids == KnownIds \cup FreshIds

LimitInputs ==
    [id : Ids, side : OrderSide, type : {LIMIT}, price : PriceInputs,
     quantity : QtyInputs, peerId : PeerIds, timestamp : TimestampInputs]

MarketInputs ==
    [id : Ids, side : OrderSide, type : {MARKET}, price : {Undefined},
     quantity : QtyInputs, peerId : PeerIds, timestamp : TimestampInputs]

\* Orders that differ from a plain Limit order in one field: the field is
\* missing or holds a value #validateOrder refuses; and the one with the type
\* left out, which it takes for a Limit order.
OddInputs ==
    UNION {
        LET plain == [id |-> id, side |-> BUY, type |-> LIMIT, price |-> 10,
                      quantity |-> 10, peerId |-> "p1", timestamp |-> Undefined]
        IN {[plain EXCEPT !.id = Absent],
            [plain EXCEPT !.side = "hold"],
            [plain EXCEPT !.type = "stop"],
            [plain EXCEPT !.type = Absent],
            [plain EXCEPT !.price = Undefined],
            [plain EXCEPT !.price = NullPrice],
            [plain EXCEPT !.price = 0],
            [plain EXCEPT !.price = -10],
            [plain EXCEPT !.quantity = Undefined],
            [plain EXCEPT !.quantity = -10],
            [plain EXCEPT !.quantity = NaN]}
        : id \in FreshIds}

OrderInputs == LimitInputs \cup MarketInputs \cup OddInputs

\* applyRemoteOrder hands addOrder { ...order, remote: true }.
withRemote(order) ==
    [f \in DOMAIN order \cup {"remote"} |->
        IF f = "remote" THEN TRUE ELSE order[f]]

applyRemoteOrder(bk, order, clock) == addOrder(bk, withRemote(order), clock)

book == [bids |-> bids, asks |-> asks, trades |-> trades, snap |-> snap]

\* A book as its constructor leaves it.
FreshBook == [bids |-> <<>>, asks |-> <<>>, trades |-> <<>>, snap |-> NoSnapshot]

\* The peers of the network, each with the id its PEER_ID gives it.
PeerNames == {"p1", "p2"}

\* No peer has been started.
PeersIdle ==
    /\ peerBooks = [p \in PeerNames |-> FreshBook]
    /\ inflight = {}
    /\ peerResult = [op |-> "new"]
    /\ applied = [p \in PeerNames |-> <<>>]

\* A call that threw: the error, and (history) the book as the call found it.
Threw(op, message, bk) ==
    [op |-> op, threw |-> message,
     before |-> [bids |-> bk.bids, asks |-> bk.asks, trades |-> bk.trades]]

Init ==
    /\ bids = <<>>
    /\ asks = <<>>
    /\ trades = <<>>
    /\ now = 1
    /\ result = [op |-> "new", threw |-> "no"]
    /\ hookLog = <<>>
    /\ fillLog = <<>>
    /\ snap = NoSnapshot
    /\ ops = 0
    /\ PeersIdle

\* The book, the returned value and the hooks after a call that returned r.
Returned(r) ==
    /\ bids' = r.book.bids
    /\ asks' = r.book.asks
    /\ trades' = r.book.trades
    /\ snap' = r.book.snap
    /\ result' = r.result
    /\ hookLog' = r.hooks
    /\ fillLog' = r.fills
    /\ ops' = ops + 1
    /\ UNCHANGED peerVars

\* A call that threw before it touched the book.
Thrown(op, message) ==
    /\ result' = Threw(op, message, book)
    /\ hookLog' = <<>>
    /\ fillLog' = <<>>
    /\ ops' = ops + 1
    /\ UNCHANGED <<bids, asks, trades, snap>>
    /\ UNCHANGED peerVars

AddOrder ==
    /\ ops < MaxOps
    /\ \E order \in OrderInputs :
          IF validateOrder(order) = "ok"
          THEN Returned(addOrder(book, order, now))
          ELSE Thrown("addOrder", validateOrder(order))
    /\ UNCHANGED now

ApplyRemoteOrder ==
    /\ ops < MaxOps
    /\ \E order \in OrderInputs :
          IF validateOrder(withRemote(order)) = "ok"
          THEN Returned(applyRemoteOrder(book, order, now))
          ELSE Thrown("addOrder", validateOrder(withRemote(order)))
    /\ UNCHANGED now

CancelOrder ==
    /\ ops < MaxOps
    /\ \E orderId \in Ids : Returned(cancelOrder(book, orderId))
    /\ UNCHANGED now

\* getSnapshot hands out a new snapshot, whose bestBid and bestAsk are the top
\* objects of the heaps.
GetSnapshot ==
    /\ ops < MaxOps
    /\ snap' = getSnapshot(book, now)
    /\ bids' = handedOut(bids)
    /\ asks' = handedOut(asks)
    /\ result' = [op |-> "getSnapshot", threw |-> "no"]
    /\ hookLog' = <<>>
    /\ fillLog' = <<>>
    /\ ops' = ops + 1
    /\ UNCHANGED <<trades, now>>
    /\ UNCHANGED peerVars

\* loadSnapshot of the snapshot the caller holds, or of one of another pair.
LoadSnapshot ==
    /\ ops < MaxOps
    /\ snap # NoSnapshot
    /\ \E pair \in {Pair, OtherPair} :
          LET snapshot == [snap EXCEPT !.pair = pair]
          IN IF ~pairMatches(snapshot)
             THEN Thrown("loadSnapshot", "Pair mismatch")
             ELSE Returned([book |-> loadSnapshot(book, snapshot),
                            hooks |-> <<>>,
                            fills |-> <<>>,
                            result |-> [op |-> "loadSnapshot", threw |-> "no",
                                        pair |-> snapshot.pair]])
    /\ UNCHANGED now

\* Time passes between two calls.
Tick ==
    /\ now < MaxNow
    /\ now' = now + 1
    /\ UNCHANGED <<bids, asks, trades, result, hookLog, fillLog, snap, ops>>
    /\ UNCHANGED peerVars

Next ==
    \/ AddOrder
    \/ ApplyRemoteOrder
    \/ CancelOrder
    \/ GetSnapshot
    \/ LoadSnapshot
    \/ Tick

Spec == Init /\ [][Next]_vars

\* ------------------------------------------- a snapshot held and loaded

\* Longer runs of the same calls with plain orders: one price, one quantity,
\* the clock for a timestamp.  They reach what a caller sees who takes a
\* snapshot, loads it, trades, and loads the same snapshot again.
MaxSnapshotOps == 5

SnapshotOrderInputs ==
    [id : Ids, side : OrderSide, type : {LIMIT}, price : {10},
     quantity : {10}, peerId : PeerIds, timestamp : {Undefined}]

SnapshotAddOrder ==
    /\ ops < MaxSnapshotOps
    /\ \E order \in SnapshotOrderInputs :
          IF validateOrder(order) = "ok"
          THEN Returned(addOrder(book, order, now))
          ELSE Thrown("addOrder", validateOrder(order))
    /\ UNCHANGED now

SnapshotCancelOrder ==
    /\ ops < MaxSnapshotOps
    /\ \E orderId \in Ids : Returned(cancelOrder(book, orderId))
    /\ UNCHANGED now

\* getSnapshot hands out a new snapshot, whose bestBid and bestAsk are the top
\* objects of the heaps.
SnapshotGetSnapshot ==
    /\ ops < MaxSnapshotOps
    /\ snap' = getSnapshot(book, now)
    /\ bids' = handedOut(bids)
    /\ asks' = handedOut(asks)
    /\ result' = [op |-> "getSnapshot", threw |-> "no"]
    /\ hookLog' = <<>>
    /\ fillLog' = <<>>
    /\ ops' = ops + 1
    /\ UNCHANGED <<trades, now>>
    /\ UNCHANGED peerVars

\* loadSnapshot of the snapshot the caller holds, or of one of another pair.
SnapshotLoadSnapshot ==
    /\ ops < MaxSnapshotOps
    /\ snap # NoSnapshot
    /\ \E pair \in {Pair, OtherPair} :
          LET snapshot == [snap EXCEPT !.pair = pair]
          IN IF ~pairMatches(snapshot)
             THEN Thrown("loadSnapshot", "Pair mismatch")
             ELSE Returned([book |-> loadSnapshot(book, snapshot),
                            hooks |-> <<>>,
                            fills |-> <<>>,
                            result |-> [op |-> "loadSnapshot", threw |-> "no",
                                        pair |-> snapshot.pair]])
    /\ UNCHANGED now

SnapshotNext ==
    \/ SnapshotAddOrder
    \/ SnapshotCancelOrder
    \/ SnapshotGetSnapshot
    \/ SnapshotLoadSnapshot

SnapshotSpec == Init /\ [][SnapshotNext]_vars

\* ------------------------------------------------- the heaps on their own

\* The most items a heap holds when it is driven directly.
MaxHeapSize == 5

\* The heap under test: a BidHeap kept in bids or an AskHeap kept in asks.
heapKind == result.kind
heapData == IF heapKind = BID THEN bids ELSE asks

\* The items inserted: resting orders as the book hands them over, with two
\* price levels and two timestamps, so that items tie on price and on both,
\* and with the NaN price the book's validation lets through (the comparators
\* never read the timestamp of such an item, so it has one).  An item is named
\* after its price and timestamp.
HeapPrices == {10, 20, NaN}
HeapTimestamps == {1, 2}
HeapKeys ==
    {k \in HeapPrices \X HeapTimestamps : k[1] = NaN => k[2] = 1}
HeapQuantities == {10, 20}
HeapIdOf(price, timestamp) ==
    IF price = 10 THEN (IF timestamp = 1 THEN "a" ELSE "b")
    ELSE IF price = 20 THEN (IF timestamp = 1 THEN "c" ELSE "d")
    ELSE (IF timestamp = 1 THEN "e" ELSE "f")
HeapIds == {HeapIdOf(k[1], k[2]) : k \in HeapKeys}

HeapItem(price, timestamp) ==
    [id |-> HeapIdOf(price, timestamp),
     side |-> IF heapKind = BID THEN BUY ELSE SELL,
     type |-> LIMIT, price |-> price, quantity |-> 10,
     peerId |-> NoPeer, timestamp |-> timestamp, status |-> OPEN, shared |-> 0]

HeapInit ==
    /\ bids = <<>>
    /\ asks = <<>>
    /\ trades = <<>>
    /\ now = 1
    /\ result \in {[op |-> "heap", kind |-> k] : k \in {BID, ASK}}
    /\ hookLog = <<>>
    /\ fillLog = <<>>
    /\ snap = NoSnapshot
    /\ ops = 0
    /\ PeersIdle

\* The heap under test becomes data.
HeapBecomes(data) ==
    /\ bids' = IF heapKind = BID THEN data ELSE bids
    /\ asks' = IF heapKind = ASK THEN data ELSE asks
    /\ UNCHANGED <<trades, now, result, hookLog, fillLog, snap, ops>>
    /\ UNCHANGED peerVars

HeapInsert ==
    /\ Len(heapData) < MaxHeapSize
    /\ \E k \in HeapKeys :
          HeapBecomes(insert(heapKind, heapData, HeapItem(k[1], k[2])))

HeapExtractTop ==
    /\ HeapBecomes(extractTop(heapKind, heapData))

HeapRemoveById ==
    /\ \E id \in HeapIds : HeapBecomes(removeById(heapKind, heapData, id))

HeapUpdateQuantity ==
    /\ \E id \in HeapIds, newQuantity \in HeapQuantities :
          HeapBecomes(updateQuantity(heapData, id, newQuantity))

HeapNext ==
    \/ HeapInsert
    \/ HeapExtractTop
    \/ HeapRemoveById
    \/ HeapUpdateQuantity

HeapSpec == HeapInit /\ [][HeapNext]_vars


\* ------------------------------------------------------------------ Peer.js

\* The most orders the peers submit in one behaviour.
MaxSubmits == 3

\* The most requests still on their way when a peer takes a new submission.
MaxInflight == 2

\* randomUUID(): an id no order has had.
UuidNames == <<"u1", "u2", "u3", "u4">>
randomUUID == UuidNames[ops + 1]

\* parseFloat of a field of the request body: NaN for a missing one.
parseFloat(value) == IF value = Undefined THEN NaN ELSE value

\* The bodies of POST /order: Limit orders (the type left out) with a price or
\* without a readable one, Market orders, and a body without a quantity.
RequestInputs ==
    [side : {BUY, SELL}, type : {Absent}, price : {10, Undefined},
     quantity : {10}]
        \cup [side : {BUY}, type : {MARKET}, price : {Undefined},
              quantity : {20}]
        \cup [side : {SELL}, type : {Absent}, price : {10},
              quantity : {Undefined}]

\* The order submitOrder builds from the request.
submitted(peer, request, clock) ==
    [id |-> randomUUID,
     side |-> request.side,
     type |-> IF request.type = Absent THEN LIMIT ELSE request.type,
     price |-> parseFloat(request.price),
     quantity |-> parseFloat(request.quantity),
     peerId |-> peer,
     timestamp |-> clock]

\* A payload that carries what is left of the order after matching.
payloadOfRemainder(order, returned) ==
    [type |-> "NEW_ORDER",
     order |-> [order EXCEPT !.quantity = IF returned.remainder = Null THEN 0
                                          ELSE returned.remainder.quantity]]

\* The payload submitOrder hands to broadcast: { type: 'NEW_ORDER', order }.
payloadOf(order, returned) == [type |-> "NEW_ORDER", order |-> order]

\* The payload as the receiving peer reads it: the transport sends JSON, which
\* writes a NaN as null.
overTheWire(payload) ==
    [payload EXCEPT !.order.price = IF @ = NaN THEN NullPrice ELSE @]

\* How a broadcast can end: every peer that announces the service is reached
\* (the sender is one of them), only some are (a partial error), or the lookup
\* finds no peer.
BroadcastOutcomes ==
    {[reached |-> PeerNames, err |-> "none"]}
        \cup {[reached |-> {p}, err |-> "ERR_TIMEOUT"] : p \in PeerNames}
        \cup {[reached |-> {}, err |-> "ERR_GRAPE_LOOKUP_NOT_FOUND"]}

\* GrenacheNode.broadcast: the requests it sends.
broadcast(payload, outcome) ==
    {[to |-> q, payload |-> overTheWire(payload)] : q \in outcome.reached}

\* A submitOrder that undoes the order when the broadcast did not succeed.
settledWithRollback(before, r, outcome) ==
    IF outcome.err = "none" THEN r
    ELSE [r EXCEPT !.book = before, !.result = Null]

\* submitOrder once the broadcast has settled: an error is logged and
\* swallowed, and the result of addOrder is returned.
settled(before, r, outcome) == r

\* The handler returns what applyRemoteOrder returned.
taken(r) ==
    [book |-> r.book, returned |-> r.result, threw |-> "no", took |-> TRUE]

\* A handler that applies every NEW_ORDER, its own peer's included.
handleEveryOrder(bk, self, payload, clock) ==
    IF payload.type # "NEW_ORDER"
    THEN [book |-> bk, returned |-> Null, threw |-> "no", took |-> FALSE]
    ELSE IF validateOrder(withRemote(payload.order)) # "ok"
    THEN [book |-> bk, returned |-> Null,
          threw |-> validateOrder(withRemote(payload.order)), took |-> FALSE]
    ELSE taken(applyRemoteOrder(bk, payload.order, clock))

\* #handleRemoteMessage: the book afterwards, what it returned, the error it
\* threw, and whether the book took an order in.
handleRemoteMessage(bk, self, payload, clock) ==
    IF payload.type = Absent
    THEN [book |-> bk, returned |-> Null, threw |-> "no", took |-> FALSE]
    ELSE IF payload.type = "NEW_ORDER"
    THEN IF payload.order.peerId = self
         THEN [book |-> bk, returned |-> Null, threw |-> "no", took |-> FALSE]
         ELSE IF validateOrder(withRemote(payload.order)) # "ok"
         THEN [book |-> bk, returned |-> Null,
               threw |-> validateOrder(withRemote(payload.order)),
               took |-> FALSE]
         ELSE taken(applyRemoteOrder(bk, payload.order, clock))
    ELSE IF payload.type = "SNAPSHOT_REQUEST"
    THEN [book |-> bk, returned |-> getSnapshot(bk, clock), threw |-> "no",
          took |-> FALSE]
    ELSE [book |-> bk, returned |-> Null, threw |-> "no", took |-> FALSE]

\* The single book is not in use.
BookIdle == UNCHANGED <<bids, asks, trades, now, result, hookLog, fillLog, snap>>

\* POST /order on a peer: submitOrder.
SubmitOrder ==
    /\ ops < MaxSubmits
    /\ Cardinality(inflight) <= MaxInflight
    /\ \E peer \in PeerNames, request \in RequestInputs,
          outcome \in BroadcastOutcomes :
          LET order == submitted(peer, request, now)
              before == peerBooks[peer]
          IN IF validateOrder(order) # "ok"
             THEN /\ peerResult' = [op |-> "submitOrder", peer |-> peer,
                                    request |-> request, order |-> order,
                                    threw |-> validateOrder(order),
                                    returned |-> Null, payload |-> Null,
                                    err |-> "none", before |-> before]
                  /\ UNCHANGED <<peerBooks, inflight, applied>>
             ELSE \E r \in {settled(before, addOrder(before, order, now),
                                      outcome)} :
                     \E payload \in {payloadOf(order, r.result)} :
                        /\ peerBooks' = [peerBooks EXCEPT ![peer] = r.book]
                        /\ inflight' = inflight \cup broadcast(payload, outcome)
                        /\ applied' = [applied EXCEPT ![peer] =
                                          Append(@, order.id)]
                        /\ peerResult' = [op |-> "submitOrder", peer |-> peer,
                                          request |-> request, order |-> order,
                                          threw |-> "no", returned |-> r.result,
                                          payload |-> payload,
                                          err |-> outcome.err, before |-> before]
    /\ ops' = ops + 1
    /\ BookIdle

\* What a call of #handleRemoteMessage on a peer leaves behind.
Handled(peer, payload) ==
    \E h \in {handleRemoteMessage(peerBooks[peer], peer, payload, now)} :
       /\ peerBooks' = [peerBooks EXCEPT ![peer] = h.book]
       /\ applied' = [applied EXCEPT ![peer] =
                         IF h.took THEN Append(@, payload.order.id) ELSE @]
       /\ peerResult' = [op |-> "handleRemoteMessage", peer |-> peer,
                         payload |-> payload, threw |-> h.threw,
                         returned |-> h.returned, before |-> peerBooks[peer]]

\* A request sent by a broadcast arrives at its peer.
HandleBroadcast ==
    /\ \E m \in inflight :
          /\ Handled(m.to, m.payload)
          /\ inflight' = inflight \ {m}
    /\ UNCHANGED ops
    /\ BookIdle

PeerNext ==
    \/ SubmitOrder
    \/ HandleBroadcast

PeerSpec == Init /\ [][PeerNext]_vars


\* ------------------------------------------------------------ properties

\* The last call was an addOrder (or applyRemoteOrder) that returned.
AddReturned == result.op = "addOrder" /\ result.threw = "no"

\* The heap the last addOrder's own side rests in, and the heap it matched.
SameSideHeap == IF result.order.side = BUY THEN bids ELSE asks
SeenOpposing(e) == IF result.order.side = BUY THEN e.seenAsks ELSE e.seenBids
SeenSameSide(e) == IF result.order.side = BUY THEN e.seenBids ELSE e.seenAsks

\* a has priority over b in a heap of this kind: a better price, or the same
\* price and an earlier timestamp.  An order whose price is not a number has
\* priority over nothing, and every priced order has priority over it.
Outranks(kind, a, b) ==
    /\ a.price # NaN
    /\ \/ b.price = NaN
       \/ IF kind = BID THEN a.price > b.price ELSE a.price < b.price
       \/ a.price = b.price /\ a.timestamp < b.timestamp

RECURSIVE SumQuantity(_)
SumQuantity(items) ==
    IF items = <<>> THEN 0 ELSE Head(items).quantity + SumQuantity(Tail(items))

\* C1: the book is never crossed: whenever both heaps hold orders, no resting
\* bid has a price that meets or exceeds the price of a resting ask (so the
\* best bid price is strictly below the best ask price).
C1_Uncrossed ==
    (Len(bids) > 0 /\ Len(asks) > 0) =>
        \A i \in 1..Len(bids) : \A j \in 1..Len(asks) :
            ~NumGe(bids[i].price, asks[j].price)

\* C2: price-time priority: every fill of an addOrder call is against the
\* resting order that no other order of the opposing heap outranks at that
\* moment (best price, then smallest timestamp).
C2_PriceTimePriority ==
    \A k \in 1..Len(fillLog) :
        LET heap == fillLog[k].heapBefore
            kind == oppKind(result.order)
        IN \A i \in 1..Len(heap) : ~Outranks(kind, heap[i], heap[1])

\* C3: every trade addOrder returns has the price the resting order had when
\* it was matched, also when the aggressor's own price differs.
C3_TradeAtRestingPrice ==
    AddReturned =>
        /\ Len(result.trades) = Len(fillLog)
        /\ \A k \in 1..Len(fillLog) :
              /\ result.trades[k] = fillLog[k].trade
              /\ result.trades[k].price = fillLog[k].heapBefore[1].price

\* A Buy limit order priced above the ask it is matched with.
C3_Witness ==
    /\ AddReturned
    /\ result.order.side = BUY
    /\ result.order.type = LIMIT
    /\ Len(fillLog) > 0
    /\ NumGt(result.order.price, fillLog[1].heapBefore[1].price)
    /\ result.trades[1].price = fillLog[1].heapBefore[1].price


\* The quantity the last addOrder left unfilled.
Leftover == IF result.remainder = Null THEN 0 ELSE result.remainder.quantity

\* C4: quantity conservation: each trade is for the smaller of the two
\* remaining quantities, the aggressor and the resting order (and with it the
\* opposing heap) both lose exactly that quantity, and the normalised quantity
\* submitted equals the quantities of the returned trades plus what is left.
C4_QuantityConservation ==
    AddReturned =>
        /\ \A k \in 1..Len(fillLog) :
              LET fill == fillLog[k]
                  resting == fill.heapBefore[1]
              IN /\ fill.trade.quantity
                       = Min2(fill.remainder.quantity, resting.quantity)
                 /\ fill.remainderAfter.quantity
                       = fill.remainder.quantity - fill.trade.quantity
                 /\ fill.bestAfter.quantity
                       = resting.quantity - fill.trade.quantity
                 /\ SumQuantity(fill.heapAfter)
                       = SumQuantity(fill.heapBefore) - fill.trade.quantity
                 /\ fill.remainder.quantity
                       = IF k = 1 THEN result.order.quantity
                         ELSE fillLog[k - 1].remainderAfter.quantity
        /\ result.order.quantity = SumQuantity(result.trades) + Leftover

\* One call with two fills: the first takes all of a smaller resting order, the
\* second takes part of a larger one.
C4_Witness ==
    /\ AddReturned
    /\ Len(fillLog) = 2
    /\ fillLog[1].remainder.quantity > fillLog[1].heapBefore[1].quantity
    /\ fillLog[2].remainder.quantity < fillLog[2].heapBefore[1].quantity
    /\ Leftover = 0

\* C5: after every call, every order resting in a heap has a quantity above
\* zero and the status Open or PartiallyFilled.
C5_RestingOrdersLive ==
    \A heap \in {bids, asks} : \A i \in 1..Len(heap) :
        /\ heap[i].quantity > 0
        /\ heap[i].status \in {OPEN, PARTIALLY_FILLED}

\* C6: only Limit orders with a price rest in a heap, and an addOrder of a
\* Market order fires no OrderAdded hook and leaves its own side as it was seen
\* by every hook of the call, whatever it could not fill.
C6_MarketOrdersNeverRest ==
    /\ \A heap \in {bids, asks} : \A i \in 1..Len(heap) :
          /\ heap[i].type = LIMIT
          /\ heap[i].price # NullPrice
    /\ (AddReturned /\ result.order.type = MARKET) =>
          /\ \A k \in 1..Len(hookLog) :
                /\ hookLog[k].event # ORDER_ADDED
                /\ SeenSameSide(hookLog[k]) = SameSideHeap
          /\ \A i \in 1..Len(SameSideHeap) : SameSideHeap[i] # result.remainder

\* A Market order met an empty opposing side: nothing traded, all of it is
\* left over, and the book holds nothing.
C6_Witness ==
    /\ AddReturned
    /\ result.order.type = MARKET
    /\ result.trades = <<>>
    /\ result.remainder # Null
    /\ result.remainder.quantity = result.order.quantity
    /\ hookLog = <<>>
    /\ bids = <<>> /\ asks = <<>>


\* C7: after any insert, extractTop, removeById and updateQuantity, the top of
\* a heap is an item none of its items outranks: for a BidHeap the highest
\* price and, among those, the smallest timestamp, for an AskHeap the lowest
\* price and, among those, the smallest timestamp; peek() is null exactly when
\* the heap is empty.
C7_HeapTop ==
    LET top == peek(heapData)
    IN IF Len(heapData) = 0 THEN top = Null
       ELSE /\ top # Null
            /\ \E i \in 1..Len(heapData) : heapData[i] = top
            /\ \A i \in 1..Len(heapData) : ~Outranks(heapKind, heapData[i], top)

\* The returned remainder rests on its own side of the book.
RemainderRests ==
    /\ result.remainder # Null
    /\ \E i \in 1..Len(SameSideHeap) : SameSideHeap[i] = result.remainder

\* C8: addOrder returns Filled when nothing is left of the aggressor,
\* PartiallyFilled when it traded and what is left rests in the book, Open
\* when it did not trade and rests in the book; the remainder is non-null only
\* with a quantity above zero.
C8_ReturnedStatus ==
    AddReturned =>
        /\ result.status \in {FILLED, PARTIALLY_FILLED, OPEN}
        /\ result.remainder # Null => result.remainder.quantity > 0
        /\ result.status = FILLED <=> result.remainder = Null
        /\ result.status = PARTIALLY_FILLED =>
              result.trades # <<>> /\ RemainderRests
        /\ result.status = OPEN =>
              result.trades = <<>> /\ RemainderRests

\* C9: whenever a hook fires during an addOrder call, the trade log it can
\* read already holds every trade of that call.
C9_TradesLoggedBeforeHooks ==
    AddReturned =>
        \A k \in 1..Len(hookLog) :
            /\ Len(hookLog[k].seenTrades) = Len(trades)
            /\ \A j \in 1..Len(result.trades) :
                  \E i \in 1..Len(hookLog[k].seenTrades) :
                      hookLog[k].seenTrades[i] = result.trades[j]

IsTradeHook(e) == e.event = TRADE
IsAddedHook(e) == e.event = ORDER_ADDED
IsRemovedHook(e) == e.event = ORDER_REMOVED
Consumed(fill) == fill.bestAfter.quantity = 0

\* C10: one addOrder call fires the Trade hook once per returned trade, in
\* order; the OrderAdded hook once, as its last hook, exactly when the
\* remainder was inserted into the book; the OrderRemoved hook once per resting
\* order it consumed, in order, each after that order left its heap.
C10_HookSequence ==
    AddReturned =>
        LET tradeHooks == SelectSeq(hookLog, IsTradeHook)
            addedHooks == SelectSeq(hookLog, IsAddedHook)
            removedHooks == SelectSeq(hookLog, IsRemovedHook)
            consumed == SelectSeq(fillLog, Consumed)
        IN /\ Len(tradeHooks) = Len(result.trades)
           /\ \A k \in 1..Len(tradeHooks) : tradeHooks[k].data = result.trades[k]
           /\ Len(addedHooks) = IF RemainderRests THEN 1 ELSE 0
           /\ RemainderRests =>
                 LET last == hookLog[Len(hookLog)]
                 IN /\ last.event = ORDER_ADDED
                    /\ last.data = result.remainder
                    /\ \E i \in 1..Len(SeenSameSide(last)) :
                          SeenSameSide(last)[i] = result.remainder
           /\ Len(removedHooks) = Len(consumed)
           /\ \A k \in 1..Len(removedHooks) :
                 /\ removedHooks[k].data = consumed[k].bestAfter
                 /\ SeenOpposing(removedHooks[k]) = consumed[k].heapAfter
                 /\ Len(consumed[k].heapAfter) = Len(consumed[k].heapBefore) - 1
           /\ Len(hookLog) = Len(tradeHooks) + Len(addedHooks) + Len(removedHooks)

\* A call that consumed a resting order, traded once and rested what was left:
\* it fired all three hooks.
C10_Witness ==
    /\ AddReturned
    /\ Len(result.trades) = 1
    /\ RemainderRests
    /\ Len(hookLog) = 3
    /\ hookLog[1].event = ORDER_REMOVED
    /\ hookLog[2].event = TRADE
    /\ hookLog[3].event = ORDER_ADDED


\* An order the validation has to refuse: no id, a side or a type that is none
\* of the enum's, a price missing or not above zero on an order that is not a
\* Market order, a quantity missing or not above zero.
Malformed(order) ==
    \/ order.id = Absent
    \/ order.side \notin {BUY, SELL}
    \/ order.type \notin {LIMIT, MARKET, Absent}
    \/ /\ order.type # MARKET
       /\ \/ order.price \in {Undefined, NullPrice}
          \/ order.price # NaN /\ order.price <= 0
    \/ order.quantity = Undefined
    \/ order.quantity # NaN /\ order.quantity <= 0

\* C11: addOrder and applyRemoteOrder refuse every malformed order with an
\* error, and a call that ends in an error leaves bids, asks and the trade log
\* as they were and fires no hook.
C11_ValidationLeavesBook ==
    /\ \A order \in OrderInputs :
          Malformed(order) =>
              /\ validateOrder(order) # "ok"
              /\ validateOrder(withRemote(order)) # "ok"
    /\ (result.op = "addOrder" /\ result.threw # "no") =>
          /\ bids = result.before.bids
          /\ asks = result.before.asks
          /\ trades = result.before.trades
          /\ hookLog = <<>>

\* An order without quantity was refused by a book that holds an order and a
\* trade.
C11_Witness ==
    /\ result.op = "addOrder"
    /\ result.threw = "Order quantity must be positive"
    /\ Len(bids) + Len(asks) > 0
    /\ Len(trades) > 0


\* No item of the heap outranks its top.
TopIsBest(kind, data) ==
    \A i \in 1..Len(data) : ~Outranks(kind, data[i], data[1])

\* C12 (its last part): cancelOrder takes the order out of its heap with
\* removeById, and the heap top invariant still holds on that side: a heap
\* whose top was its best item before an item was removed has its best item on
\* top afterwards.
C12_CancelKeepsHeapTop ==
    [][(Len(heapData') = Len(heapData) - 1 /\ TopIsBest(heapKind, heapData))
           => TopIsBest(heapKind, heapData')]_vars


\* C13: cancelOrder of an id that rests on neither side returns null, fires no
\* hook and leaves both heaps and the trade log as they were.
C13_CancelUnknownId ==
    [][(/\ result'.op = "cancelOrder"
        /\ ops' = ops + 1
        /\ result'.orderId \notin RestingIds)
           => /\ result'.cancelled = Null
              /\ hookLog' = <<>>
              /\ bids' = bids
              /\ asks' = asks
              /\ trades' = trades]_vars

C13_Witness ==
    /\ result.op = "cancelOrder"
    /\ result.orderId \notin RestingIds
    /\ result.cancelled = Null
    /\ Len(bids) > 0
    /\ Len(asks) > 0


\* What identifies a resting order across a snapshot.
Key(order) ==
    IF order = Null THEN <<>>
    ELSE <<order.id, order.price, order.quantity, order.timestamp, order.side>>

\* The resting orders of a book as a multiset of keys.
RestingKeys(bk) ==
    LET all == bk.bids \o bk.asks
    IN [k \in {Key(all[i]) : i \in 1..Len(all)} |->
           Cardinality({i \in 1..Len(all) : Key(all[i]) = k})]

\* C14: snapshot round trip: loading getSnapshot() of the book into a fresh
\* book of the same pair gives the same bestBid, bestAsk and spread and the
\* same multiset of resting orders by (id, price, quantity, timestamp, side).
C14_SnapshotRoundTrip ==
    LET loaded == loadSnapshot(FreshBook, getSnapshot(book, now))
    IN /\ Key(bestBid(loaded)) = Key(bestBid(book))
       /\ Key(bestAsk(loaded)) = Key(bestAsk(book))
       /\ spread(loaded) = spread(book)
       /\ RestingKeys(loaded) = RestingKeys(book)


\* C15: loadSnapshot with a snapshot of another pair fails with a pair
\* mismatch error (only a snapshot of the book's own pair is ever loaded) and
\* leaves bids, asks and the trade log exactly as they were before the call.
C15_PairMismatchLeavesBook ==
    result.op = "loadSnapshot" =>
        IF result.threw = "no"
        THEN result.pair = Pair
        ELSE /\ result.threw = "Pair mismatch"
             /\ bids = result.before.bids
             /\ asks = result.before.asks
             /\ trades = result.before.trades

C15_Witness ==
    /\ result.op = "loadSnapshot"
    /\ result.threw = "Pair mismatch"
    /\ Len(bids) + Len(asks) > 0
    /\ RestingKeys(book) # RestingKeys([bids |-> snap.bids, asks |-> snap.asks])


\* C16: snapshots never alias heap entries: once getSnapshot has returned, no
\* later call on the book (an addOrder that fills, a cancelOrder) changes any
\* part of the snapshot the caller holds, its bids and asks entries and its
\* bestBid and bestAsk: the snapshot changes only by a new getSnapshot.
C16_SnapshotsNeverAlias ==
    [][(snap # NoSnapshot /\ snap' # snap) => result'.op = "getSnapshot"]_vars


\* The last call on a peer was #handleRemoteMessage with a NEW_ORDER payload.
NewOrderHandled ==
    /\ peerResult.op = "handleRemoteMessage"
    /\ peerResult.payload.type = "NEW_ORDER"

\* C17: loopback suppression: a NEW_ORDER whose order.peerId is the receiving
\* peer's own id is dropped (null is returned and the peer's book is as it
\* was); one from another peer goes through applyRemoteOrder; so no peer's book
\* takes the same order in twice.
C17_LoopbackSuppression ==
    /\ NewOrderHandled =>
          LET self == peerResult.peer
              order == peerResult.payload.order
          IN IF order.peerId = self
             THEN /\ peerResult.returned = Null
                  /\ peerResult.threw = "no"
                  /\ peerBooks[self] = peerResult.before
             ELSE IF validateOrder(withRemote(order)) = "ok"
             THEN LET r == applyRemoteOrder(peerResult.before, order, now)
                  IN /\ peerResult.returned = r.result
                     /\ peerBooks[self] = r.book
             ELSE peerResult.threw = validateOrder(withRemote(order))
    /\ \A p \in PeerNames : \A i, j \in 1..Len(applied[p]) :
          applied[p][i] = applied[p][j] => i = j

C17_Witness ==
    /\ NewOrderHandled
    /\ peerResult.payload.order.peerId = peerResult.peer
    /\ peerResult.returned = Null
    /\ \E i \in 1..Len(peerBooks[peerResult.peer].bids) :
          peerBooks[peerResult.peer].bids[i].id = peerResult.payload.order.id

\* The last call on a peer was submitOrder.
Submitted == peerResult.op = "submitOrder"

\* C18: submitOrder hands broadcast a payload tagged NEW_ORDER that carries the
\* order as it was built from the request (its full quantity and its price,
\* whatever was filled locally); an order that fails validation is not handed
\* over; and an order is on its way to a peer only when its sender's book has
\* taken it in.
C18_BroadcastAfterAddOrder ==
    /\ Submitted =>
          IF peerResult.threw # "no"
          THEN /\ peerResult.payload = Null
               /\ \A m \in inflight : m.payload.order.id # peerResult.order.id
          ELSE /\ peerResult.payload.type = "NEW_ORDER"
               /\ peerResult.payload.order = peerResult.order
               /\ peerResult.payload.order.quantity
                      = parseFloat(peerResult.request.quantity)
               /\ peerResult.payload.order.price
                      = parseFloat(peerResult.request.price)
    /\ \A m \in inflight :
          /\ m.payload.type = "NEW_ORDER"
          /\ \E i \in 1..Len(applied[m.payload.order.peerId]) :
                applied[m.payload.order.peerId][i] = m.payload.order.id

C18_Witness ==
    /\ Submitted
    /\ peerResult.threw = "no"
    /\ Len(peerResult.returned.trades) > 0
    /\ peerResult.returned.remainder # Null
    /\ peerResult.returned.remainder.quantity < peerResult.payload.order.quantity
    /\ \E m \in inflight : m.payload.order.id = peerResult.order.id

\* C19: whether the broadcast succeeds, reports a partial error or finds no
\* peer, submitOrder returns what addOrder returned, and the peer's book is the
\* book addOrder left.
C19_BroadcastFailureKeepsOrder ==
    (Submitted /\ peerResult.threw = "no") =>
        LET r == addOrder(peerResult.before, peerResult.order, now)
        IN /\ peerResult.returned = r.result
           /\ peerBooks[peerResult.peer] = r.book

C19_Witness ==
    /\ Submitted
    /\ peerResult.threw = "no"
    /\ peerResult.err = "ERR_TIMEOUT"
    /\ Len(peerResult.returned.trades) > 0
    /\ Len(peerBooks[peerResult.peer].trades) > Len(peerResult.before.trades)

\* C20: under every interleaving of submissions and deliveries, the book of
\* each peer is uncrossed, and every order resting in it is a Limit order with
\* a quantity above zero.
C20_ReplicaInvariants ==
    \A p \in PeerNames :
        LET bk == peerBooks[p]
        IN /\ \A i \in 1..Len(bk.bids) : \A j \in 1..Len(bk.asks) :
                 ~NumGe(bk.bids[i].price, bk.asks[j].price)
           /\ \A heap \in {bk.bids, bk.asks} : \A i \in 1..Len(heap) :
                 /\ heap[i].quantity > 0
                 /\ heap[i].type = LIMIT


\* The ids a peer's book has taken in.
AppliedIds(p) == {applied[p][i] : i \in 1..Len(applied[p])}

\* Nothing is on its way, and every order some book has taken in every book has
\* taken in: each accepted order reached every other peer and was accepted there.
AllDelivered ==
    /\ inflight = {}
    /\ \A p, q \in PeerNames : AppliedIds(p) = AppliedIds(q)

\* A trade log as a sequence of matches: price, quantity and the two order ids.
Matches(log) ==
    [i \in 1..Len(log) |->
        <<log[i].price, log[i].quantity, log[i].buyOrderId, log[i].sellOrderId>>]

\* C21: convergence: once every accepted order has been delivered to every
\* other peer, all replicas hold the same resting orders and the same sequence
\* of matches (price, quantity, buy order id, sell order id), whatever the
\* order of submissions and deliveries was.
C21_Convergence ==
    AllDelivered =>
        \A p, q \in PeerNames :
            /\ RestingKeys(peerBooks[p]) = RestingKeys(peerBooks[q])
            /\ Matches(peerBooks[p].trades) = Matches(peerBooks[q].trades)


\* The last call on a peer handed a NEW_ORDER to applyRemoteOrder, which
\* returned.
RemoteApplied ==
    /\ NewOrderHandled
    /\ peerResult.threw = "no"
    /\ peerResult.returned # Null

\* C22: applyRemoteOrder is equivalent in effect to addOrder: on the book as
\* the handler found it, both accept the same orders, return the same trades,
\* remainder and status, fire the same hooks in the same order and leave the
\* same bids, asks and trade log; the peer's book is that book.
C22_ApplyRemoteEqualsAddOrder ==
    /\ NewOrderHandled =>
          validateOrder(withRemote(peerResult.payload.order))
              = validateOrder(peerResult.payload.order)
    /\ RemoteApplied =>
          LET local == addOrder(peerResult.before, peerResult.payload.order, now)
          IN /\ applyRemoteOrder(peerResult.before, peerResult.payload.order, now)
                    = local
             /\ peerResult.returned = local.result
             /\ peerBooks[peerResult.peer] = local.book

C22_Witness ==
    /\ RemoteApplied
    /\ Len(peerResult.returned.trades) > 0
    /\ Len(peerBooks[peerResult.peer].bids) + Len(peerBooks[peerResult.peer].asks) > 0


\* C23: the trade log is append-only: the log before a call is a prefix of the
\* log after it; addOrder and applyRemoteOrder extend it by exactly the trades
\* they return, in that order, and every other call (cancelOrder, getSnapshot,
\* loadSnapshot, a call that throws) leaves it as it was.
C23_TradeLogAppendOnly ==
    [][/\ Len(trades') >= Len(trades)
       /\ SubSeq(trades', 1, Len(trades)) = trades
       /\ IF ops' = ops + 1 /\ result'.op = "addOrder" /\ result'.threw = "no"
          THEN trades' = trades \o result'.trades
          ELSE trades' = trades]_vars

C23_Witness ==
    /\ AddReturned
    /\ Len(result.trades) > 0
    /\ Len(trades) > Len(result.trades)


\* The status changes the lifecycle allows: Open to PartiallyFilled, to Filled
\* or to Cancelled, and PartiallyFilled to Filled.
AllowedStatusChange(old, new) ==
    \/ old = new
    \/ old = OPEN /\ new \in {PARTIALLY_FILLED, FILLED, CANCELLED}
    \/ old = PARTIALLY_FILLED /\ new = FILLED

\* The orders resting in either heap.
Resting == bids \o asks

\* C24: order status lifecycle: the status of an order object changes only
\* along Open, PartiallyFilled, Filled or Open, Cancelled: the order a
\* cancelOrder call returns as Cancelled was Open when it rested, and an order
\* that rests before and after a call changed its status along the lifecycle.
C24_StatusLifecycle ==
    [][/\ (ops' = ops + 1 /\ result'.op = "cancelOrder"
              /\ result'.cancelled # Null) =>
             \A i \in 1..Len(Resting) :
                 [Resting[i] EXCEPT !.status = CANCELLED] = result'.cancelled
                     => AllowedStatusChange(Resting[i].status,
                                            result'.cancelled.status)
       /\ \A i \in 1..Len(Resting) : \A j \in 1..Len(Resting') :
             (/\ Resting[i].id = Resting'[j].id
              /\ Cardinality({k \in 1..Len(Resting) :
                                 Resting[k].id = Resting[i].id}) = 1
              /\ Cardinality({k \in 1..Len(Resting') :
                                 Resting'[k].id = Resting[i].id}) = 1
              /\ result'.op \in {"addOrder", "cancelOrder"})
                 => AllowedStatusChange(Resting[i].status, Resting'[j].status)]_vars


\* A sequence back to front.
Reversed(seq) == [i \in 1..Len(seq) |-> seq[Len(seq) + 1 - i]]

\* The snapshot of the book, and the same snapshot with its arrays back to front.
SnapshotsOfBook ==
    LET snapshot == getSnapshot(book, now)
    IN {snapshot,
        [snapshot EXCEPT !.bids = Reversed(@), !.asks = Reversed(@)]}

\* C25: loadSnapshot of a snapshot of the book's pair leaves the trade log as
\* it was; afterwards the resting orders are exactly the orders of
\* snapshot.bids and snapshot.asks, and no order of a heap outranks its top,
\* whatever the order of the snapshot's arrays.
C25_LoadSnapshotRebuilds ==
    \A snapshot \in SnapshotsOfBook :
        LET loaded == loadSnapshot(book, snapshot)
        IN /\ loaded.trades = trades
           /\ RestingKeys(loaded)
                  = RestingKeys([bids |-> snapshot.bids, asks |-> snapshot.asks])
           /\ TopIsBest(BID, loaded.bids)
           /\ TopIsBest(ASK, loaded.asks)


\* The heap the last addOrder matched against, as the call left it.
OpposingHeapNow == IF result.order.side = BUY THEN asks ELSE bids

\* C26: sweep order: the trades one addOrder call returns go through the
\* resting orders in priority order (prices do not fall along the list for a
\* Buy, do not rise for a Sell); a Market order is matched until it is filled
\* or the opposing side is empty; and every fill but the last takes all of its
\* resting order, which leaves the heap.
C26_SweepOrder ==
    AddReturned =>
        /\ \A k \in 1..(Len(result.trades) - 1) :
              IF result.order.side = BUY
              THEN NumLe(result.trades[k].price, result.trades[k + 1].price)
              ELSE NumGe(result.trades[k].price, result.trades[k + 1].price)
        /\ result.order.type = MARKET =>
              (result.remainder = Null \/ OpposingHeapNow = <<>>)
        /\ \A k \in 1..(Len(fillLog) - 1) :
              /\ fillLog[k].bestAfter.quantity = 0
              /\ Len(fillLog[k].heapAfter) = Len(fillLog[k].heapBefore) - 1
              /\ \A i \in 1..Len(fillLog[k].heapAfter) :
                    fillLog[k].heapAfter[i] # fillLog[k].bestAfter

\* How many places of a heap array hold item.
Count(data, item) == Cardinality({i \in 1..Len(data) : data[i] = item})

\* data without one copy of item, as a multiset.
IsWithoutOne(after, data, item) ==
    /\ Len(after) = Len(data) - 1
    /\ \A i \in 1..Len(data) :
          Count(after, data[i])
              = Count(data, data[i]) - (IF data[i] = item THEN 1 ELSE 0)

\* What repeated extractTop calls return, in the order of the calls.
RECURSIVE Drained(_, _)
Drained(kind, data) ==
    IF data = <<>> THEN <<>>
    ELSE <<peek(data)>> \o Drained(kind, extractTop(kind, data))

\* C27: extractTop removes exactly one element and returns the
\* highest-priority one (null on an empty heap, which stays empty); what
\* remains is the same multiset minus that element; repeated extractTop calls
\* return the elements in comparator order: no element comes out after one it
\* has priority over (price descending then timestamp ascending for bids,
\* price ascending then timestamp ascending for asks).
C27_ExtractTop ==
    LET top == peek(heapData)
        rest == extractTop(heapKind, heapData)
        out == Drained(heapKind, heapData)
    IN IF heapData = <<>>
       THEN top = Null /\ rest = <<>>
       ELSE /\ IsWithoutOne(rest, heapData, top)
            /\ \A i \in 1..Len(heapData) : ~Outranks(heapKind, heapData[i], top)
            /\ Len(out) = Len(heapData)
            /\ \A i, j \in 1..Len(out) :
                  i < j => ~Outranks(heapKind, out[j], out[i])

\* Every child of a heap array does not have priority over its parent.
HeapOrdered(kind, data) ==
    \A i \in 2..Len(data) : ~Outranks(kind, data[i], data[i \div 2])

\* C28: removeById(id), at any position of a heap, removes exactly one
\* element with that id (the one it returns) and keeps the multiset of the
\* others; a heap in which no child had priority over its parent is again
\* such a heap afterwards, for every parent/child pair; when no element has
\* the id the call returns null and the array is unchanged.
C28_RemoveById ==
    \A id \in HeapIds :
        LET idx == findIndex(heapData, id)
            after == removeById(heapKind, heapData, id)
        IN IF \A i \in 1..Len(heapData) : heapData[i].id # id
           THEN idx = 0 /\ after = heapData
           ELSE /\ idx \in 1..Len(heapData)
                /\ heapData[idx].id = id
                /\ IsWithoutOne(after, heapData, heapData[idx])
                /\ HeapOrdered(heapKind, heapData) => HeapOrdered(heapKind, after)

\* C29: query results are copies or stable snapshots: a value bestBid() or
\* bestAsk() returned (getSnapshot calls both and hands their values to the
\* caller as snapshot.bestBid and snapshot.bestAsk) is not changed by any
\* later operation on the book: a later fill does not change the quantity the
\* caller sees in it, a later cancel does not change its status.
C29_QueryResultsStable ==
    [][(snap # NoSnapshot /\ result'.op \in {"addOrder", "cancelOrder"})
          => /\ snap'.bestBid = snap.bestBid
             /\ snap'.bestAsk = snap.bestAsk]_vars

\* C30: a resting order that an aggressor has partly consumed and that still
\* has positive quantity carries status PartiallyFilled in the book, and a
\* resting order handed to the OrderRemoved hook because it was fully consumed
\* carries status Filled.
C30_RestingOrderStatus ==
    AddReturned =>
        /\ \A k \in 1..Len(fillLog) :
              NumGt(fillLog[k].bestAfter.quantity, 0) =>
                  /\ fillLog[k].heapAfter[1] = fillLog[k].bestAfter
                  /\ fillLog[k].bestAfter.status = PARTIALLY_FILLED
        /\ \A h \in 1..Len(hookLog) :
              hookLog[h].event = ORDER_REMOVED => hookLog[h].data.status = FILLED

\* ------------------------------------------------ requests delivered twice

\* The most orders a peer's book has taken in when a request reaches it again.
MaxApplied == 1

\* The server of a peer hands every request it receives to #handleRemoteMessage
\* and keeps no record of the requests it has handled: a request arrives at
\* its peer, and the transport either is done with it or has it on its way
\* once more.
HandleDelivery ==
    /\ \E m \in inflight, again \in BOOLEAN :
          /\ again => Len(applied[m.to]) < MaxApplied
          /\ Handled(m.to, m.payload)
          /\ inflight' = IF again THEN inflight ELSE inflight \ {m}
    /\ UNCHANGED ops
    /\ BookIdle

RedeliveryNext ==
    \/ SubmitOrder
    \/ HandleDelivery

RedeliverySpec == Init /\ [][RedeliveryNext]_vars

\* The ids of the orders resting in a book, one entry for each order.
IdsResting(bk) ==
    LET all == bk.bids \o bk.asks
    IN [i \in 1..Len(all) |-> all[i].id]

\* C31: order ids are unique in the book: under any sequence of local
\* submissions and inbound NEW_ORDER deliveries, the same payload delivered
\* more than once included, no two orders resting in a peer's book share an
\* id, and no peer's book takes the same order in twice.
C31_UniqueRestingIds ==
    \A p \in PeerNames :
        /\ \A i, j \in 1..Len(IdsResting(peerBooks[p])) :
              IdsResting(peerBooks[p])[i] = IdsResting(peerBooks[p])[j] => i = j
        /\ \A i, j \in 1..Len(applied[p]) :
              applied[p][i] = applied[p][j] => i = j

\* What the frame of a fill is about: an order's identity, price, timestamp
\* and quantity.
Framed(order) == <<order.id, order.price, order.timestamp, order.quantity>>
FramedAll(heap) == [i \in 1..Len(heap) |-> Framed(heap[i])]

\* The fill left quantity in the resting order it matched.
PartFill(fill) == NumGt(fill.bestAfter.quantity, 0)

\* C32: frame of a partial fill: when an aggressor partly consumes the top
\* resting order, the only change to the opposing heap is that this order's
\* quantity goes down by the traded quantity; every other resting order, on
\* either side, keeps its position, price, timestamp and quantity.
C32_PartialFillFrame ==
    [][(/\ result'.op = "addOrder"
        /\ result'.threw = "no"
        /\ fillLog' # <<>>
        /\ PartFill(fillLog'[Len(fillLog')]))
          => LET fill == fillLog'[Len(fillLog')]
                 buys == result'.order.side = BUY
             IN /\ FramedAll(fill.heapAfter) =
                      [FramedAll(fill.heapBefore) EXCEPT
                          ![1] = <<@[1], @[2], @[3], @[4] - fill.trade.quantity>>]
                /\ FramedAll(IF buys THEN asks' ELSE bids') = FramedAll(fill.heapAfter)
                /\ FramedAll(IF buys THEN bids' ELSE asks')
                      = FramedAll(IF buys THEN bids ELSE asks)]_vars

\* A partial fill of the top of a heap that holds another order beneath it.
C32_Witness ==
    /\ AddReturned
    /\ fillLog # <<>>
    /\ PartFill(fillLog[Len(fillLog)])
    /\ Len(fillLog[Len(fillLog)].heapAfter) > 1

\* A second book of the same pair that was given the same calls at other
\* moments: its trades carry another Date.now() in their id and timestamp.
OtherClock == IF now = 1 THEN 2 ELSE 1
Restamped(trade) ==
    [trade EXCEPT !.timestamp = OtherClock,
                  !.id = <<@[1], @[2], OtherClock>>]
SecondBook ==
    [book EXCEPT !.trades = [i \in 1..Len(trades) |-> Restamped(trades[i])]]

\* The timestamps an order carries when its caller sets one.
ExplicitTimestamps == {0, 1}

\* The orders of OrderInputs that addOrder accepts, each with a timestamp set
\* by the caller.
StampedInputs ==
    {[order EXCEPT !.timestamp = t] :
        order \in {o \in OrderInputs : o.timestamp = 1 /\ validateOrder(o) = "ok"},
        t \in ExplicitTimestamps}

\* Two books show the same: the same multiset of resting orders, the same
\* bestBid and bestAsk, and the same sequence of trades by price, quantity and
\* the ids of the two orders.
SameOutcome(bk1, bk2) ==
    /\ RestingKeys(bk1) = RestingKeys(bk2)
    /\ Key(bestBid(bk1)) = Key(bestBid(bk2))
    /\ Key(bestAsk(bk1)) = Key(bestAsk(bk2))
    /\ Matches(bk1.trades) = Matches(bk2.trades)

\* C33: determinism of the matching engine: two books of the same pair that
\* were given the same calls so far show the same, and still do after each is
\* given the same next call (addOrder or applyRemoteOrder of an order carrying
\* an explicit timestamp, or cancelOrder), whatever the clocks of the two nodes
\* say.
C33_Determinism ==
    /\ SameOutcome(book, SecondBook)
    /\ \A order \in StampedInputs :
          /\ SameOutcome(addOrder(book, order, now).book,
                         addOrder(SecondBook, order, OtherClock).book)
          /\ SameOutcome(applyRemoteOrder(book, order, now).book,
                         applyRemoteOrder(SecondBook, order, OtherClock).book)
    /\ \A orderId \in Ids :
          SameOutcome(cancelOrder(book, orderId).book,
                      cancelOrder(SecondBook, orderId).book)

\* ------------------------------------------------------- a hook that throws

\* addOrder when the hook of its k-th #emit throws: #emit calls the hook with
\* nothing around it, so the call ends there with the error.  r is what the
\* call would have done had no hook thrown.  The book is left as that hook saw
\* it; the ORDER_REMOVED hooks fire inside #match, one after each fill that
\* emptied a resting order, the others after #match has returned.
thrownAt(bk, r, k) ==
    LET hook == r.hooks[k]
        done == IF hook.event = ORDER_REMOVED THEN k ELSE Len(r.fills)
        fills == SubSeq(r.fills, 1, done)
    IN [book |-> [bids |-> hook.seenBids,
                  asks |-> hook.seenAsks,
                  trades |-> hook.seenTrades,
                  snap |-> writeFills(bk.snap, oppKind(r.result.order), fills)],
        hooks |-> SubSeq(r.hooks, 1, k),
        fills |-> fills,
        result |-> [op |-> "addOrder",
                    threw |-> "hook",
                    event |-> hook.event,
                    order |-> r.result.order,
                    remainder |-> IF done = 0 THEN r.result.order
                                  ELSE fills[done].remainderAfter]]

\* An addOrder during which a hook throws.
AddOrderHookThrows ==
    /\ ops < MaxOps
    /\ \E order \in OrderInputs :
          /\ validateOrder(order) = "ok"
          /\ \E r \in {addOrder(book, order, now)} :
                \E k \in 1..Len(r.hooks) : Returned(thrownAt(book, r, k))
    /\ UNCHANGED now

HookNext ==
    \/ AddOrder
    \/ AddOrderHookThrows
    \/ CancelOrder
    \/ Tick

HookSpec == Init /\ [][HookNext]_vars

\* The last call was an addOrder that ended with the error of a hook.
HookThrew == result.op = "addOrder" /\ result.threw = "hook"

\* C34: if an observer hook throws during addOrder, the book is left
\* consistent: every fill already applied to a resting order (its quantity
\* written down, or the order removed) has its trade in the trade log, and
\* what is left of a Limit aggressor either rests in the book or no fill of
\* that aggressor has been applied.
C34_HookThrowLeavesBookConsistent ==
    HookThrew =>
        /\ \A k \in 1..Len(fillLog) :
              \E i \in 1..Len(trades) : trades[i] = fillLog[k].trade
        /\ (result.order.type = LIMIT /\ NumGt(result.remainder.quantity, 0)) =>
              \/ fillLog = <<>>
              \/ \E i \in 1..Len(SameSideHeap) :
                    Key(SameSideHeap[i]) = Key(result.remainder)

\* Prices and quantities finer than the precision of the book: less than half
\* a step.
FineValues == {4}

\* Limit and Market orders with a price or a quantity finer than the precision.
FineInputs ==
    [id : FreshIds, side : OrderSide, type : {LIMIT}, price : FineValues \cup {10},
     quantity : FineValues \cup {10}, peerId : PeerIds, timestamp : {1}]
        \cup [id : FreshIds, side : OrderSide, type : {MARKET},
              price : {Undefined}, quantity : FineValues, peerId : PeerIds,
              timestamp : {1}]

\* The orders #validateOrder lets through.
AcceptedInputs ==
    {order \in OrderInputs \cup FineInputs : validateOrder(order) = "ok"}

\* C35: normalisation keeps accepted orders positive: for every order that
\* passes validation, inputs finer than the precision included, the normalised
\* quantity that enters matching is above 0 and, for a Limit order, so is the
\* normalised price; so no order rests at price 0, and addOrder never returns
\* Filled for an order that traded nothing.
C35_NormalisedPositive ==
    \A order \in AcceptedInputs :
        LET normalised == normalise(order, now)
            r == addOrder(book, order, now)
            resting == r.book.bids \o r.book.asks
        IN /\ NumGt(normalised.quantity, 0)
           /\ normalised.type = LIMIT => NumGt(normalised.price, 0)
           /\ \A i \in 1..Len(resting) : resting[i].price # 0
           /\ r.result.status = FILLED => r.result.trades # <<>>

\* The ids of the orders the book holds and has traded, one entry for each
\* order: the resting orders and the two orders of every trade.
EveryId(bk) ==
    IdsResting(bk)
        \o [i \in 1..Len(bk.trades) |-> bk.trades[i].buyOrderId]
        \o [i \in 1..Len(bk.trades) |-> bk.trades[i].sellOrderId]

\* Every call so far was an addOrder of an order with an id the book had not
\* seen, and every such order rests whole or was traded whole: the callers
\* name a new order with the first name not yet seen, so these orders entered
\* the book in the order of their names.
EnteredInNameOrder ==
    /\ Len(EveryId(book)) = ops
    /\ \A i, j \in 1..Len(EveryId(book)) :
          EveryId(book)[i] = EveryId(book)[j] => i = j

Arrival(id) == CHOOSE k \in 1..Len(IdNames) : IdNames[k] = id

\* C36: strict FIFO at equal price: among resting orders at the same price
\* that also carry the same timestamp (orders defaulted to the node clock
\* within one tick), the one that entered the book first is matched first: no
\* fill is against an order while one that entered before it, with the same
\* price and timestamp, rests in the heap.
C36_FifoAtEqualPriceAndTimestamp ==
    (AddReturned /\ EnteredInNameOrder) =>
        \A k \in 1..Len(fillLog) :
            LET heap == fillLog[k].heapBefore
            IN \A i \in 1..Len(heap) :
                  (heap[i].price = heap[1].price
                      /\ heap[i].timestamp = heap[1].timestamp)
                      => Arrival(heap[1].id) <= Arrival(heap[i].id)

\* The number of resting orders the aggressor of the last addOrder found on
\* the opposing side.
OpposingAtStart ==
    IF fillLog = <<>> THEN Len(OpposingHeapNow) ELSE Len(fillLog[1].heapBefore)

\* C37: matching terminates: an addOrder call makes at most as many trades
\* (passes of its loop) as there were resting orders on the opposing side when
\* it began, and each pass either removes the top resting order or brings what
\* is left of the aggressor to quantity 0.
C37_MatchingTerminates ==
    AddReturned =>
        /\ Len(result.trades) = Len(fillLog)
        /\ Len(fillLog) <= OpposingAtStart
        /\ \A k \in 1..Len(fillLog) :
              \/ /\ Len(fillLog[k].heapAfter) = Len(fillLog[k].heapBefore) - 1
                 /\ fillLog[k].bestAfter.quantity = 0
              \/ fillLog[k].remainderAfter.quantity = 0

\* A call that swept two resting orders, all there were on the opposing side.
C37_Witness ==
    /\ AddReturned
    /\ Len(fillLog) = 2
    /\ OpposingAtStart = 2
    /\ OpposingHeapNow = <<>>

====
